---- MODULE Spec2Model ----
(***************************************************************************)
(* A model of python/sanitize.py of closure-templates: the trusted-content *)
(* classes (SanitizedContent and its approval), the whitelist tag filter   *)
(* (_strip_html_tags, _tag_sub_handler, _balance_tags) and html_to_text.   *)
(*                                                                         *)
(* Python strings are sequences of one-character strings, so that regular  *)
(* expressions are computed character by character.  None and '' of a      *)
(* string-valued expression are both the empty sequence where the code     *)
(* only tests truthiness; where it tells them apart the model says so.     *)
(***************************************************************************)
EXTENDS Integers, Sequences, FiniteSets, TLC

VARIABLES
    pc,                        \* position of the running call
    value,                     \* the argument of the call
    tag_whitelist,             \* _strip_html_tags: tag_whitelist
    html,                      \* _strip_html_tags / html_to_text: html
    tags,                      \* _strip_html_tags / _balance_tags: tags
    i,                         \* _balance_tags: loop index (1-based)
    open_tags,                 \* _balance_tags: open_tags
    final_close_tags,          \* _strip_html_tags: final_close_tags
    result,                    \* the value returned by the call
    text,                      \* html_to_text: text
    start,                     \* html_to_text: start (1-based)
    removing_until,            \* html_to_text: removing_until
    preserve_whitespace_stack, \* html_to_text: preserve_whitespace_stack
    made,                      \* the SanitizedContent objects constructed so far
    event                      \* what the last step did (history, read by the properties only)

vars == <<pc, value, tag_whitelist, html, tags, i, open_tags, final_close_tags,
          result, text, start, removing_until, preserve_whitespace_stack, made, event>>

----------------------------------------------------------------------------
(* Characters and strings *)

LowerLetters == <<"a","b","c","d","e","f","g","h","i","j","k","l","m",
                  "n","o","p","q","r","s","t","u","v","w","x","y","z">>
UpperLetters == <<"A","B","C","D","E","F","G","H","I","J","K","L","M",
                  "N","O","P","Q","R","S","T","U","V","W","X","Y","Z">>

Range(f) == {f[k] : k \in DOMAIN f}

Lower == Range(LowerLetters)
Upper == Range(UpperLetters)
Letters == Lower \cup Upper
Digits == {"0","1","2","3","4","5","6","7","8","9"}
DigitSeq == <<"0","1","2","3","4","5","6","7","8","9">>

\* str.lower() on one character
LowerMap == [c \in Upper |-> LowerLetters[CHOOSE k \in 1..26 : UpperLetters[k] = c]]
lower_char(c) == IF c \in Upper THEN LowerMap[c] ELSE c
\* str.lower()
lower(s) == [k \in 1..Len(s) |-> lower_char(s[k])]

\* s[p:] of a 1-based sequence
From(s, p) == SubSeq(s, p, Len(s))

\* whether s has t at position p (s.startswith(t, p-1))
HasAt(s, p, t) == p >= 1 /\ p + Len(t) - 1 <= Len(s) /\ SubSeq(s, p, p + Len(t) - 1) = t

\* the least index >= p of character c in s, 0 when there is none (s.find)
IndexOf(s, c, p) ==
    LET S == {k \in p..Len(s) : s[k] = c}
    IN  IF S = {} THEN 0 ELSE CHOOSE k \in S : \A j \in S : k <= j

\* the least index >= p at which t occurs in s, 0 when there is none
FindSub(s, t, p) ==
    LET S == {k \in p..(Len(s) - Len(t) + 1) : HasAt(s, k, t)}
    IN  IF S = {} THEN 0 ELSE CHOOSE k \in S : \A j \in S : k <= j

\* ''.join(parts)
RECURSIVE Join(_)
Join(parts) == IF parts = <<>> THEN <<>> ELSE Head(parts) \o Join(Tail(parts))

\* reversed(list)
Reversed(s) == [k \in 1..Len(s) |-> s[Len(s) + 1 - k]]

\* '%d' % n
RECURSIVE FormatInt(_)
FormatInt(n) == IF n < 10 THEN <<DigitSeq[n + 1]>>
                ELSE Append(FormatInt(n \div 10), DigitSeq[(n % 10) + 1])

\* int(digits)
RECURSIVE ParseInt(_)
ParseInt(d) ==
    IF d = <<>> THEN 0
    ELSE 10 * ParseInt(SubSeq(d, 1, Len(d) - 1))
         + ((CHOOSE k \in 1..10 : DigitSeq[k] = d[Len(d)]) - 1)

\* the first index >= q of s whose character is not in cls (a greedy cls*)
RECURSIVE SpanEnd(_, _, _)
SpanEnd(s, q, cls) ==
    IF q <= Len(s) /\ s[q] \in cls THEN SpanEnd(s, q + 1, cls) ELSE q

----------------------------------------------------------------------------
(* Constants of sanitize.py *)

\* the names _HTML5_VOID_ELEMENTS_RE lists
VoidNames ==
    { <<"a","r","e","a">>, <<"b","a","s","e">>, <<"b","r">>, <<"c","o","l">>,
      <<"c","o","m","m","a","n","d">>, <<"e","m","b","e","d">>, <<"h","r">>,
      <<"i","m","g">>, <<"i","n","p","u","t">>, <<"k","e","y","g","e","n">>,
      <<"l","i","n","k">>, <<"m","e","t","a">>, <<"p","a","r","a","m">>,
      <<"s","o","u","r","c","e">>, <<"t","r","a","c","k">>, <<"w","b","r">> }

\* \w of a Python regular expression (ASCII part)
WordChars == Letters \cup Digits \cup {"_"}

\* _HTML5_VOID_ELEMENTS_RE with br left out of its list
HTML5_VOID_ELEMENTS_RE_match_without_br(tag) ==
    /\ Len(tag) >= 1
    /\ tag[1] = "<"
    /\ \E v \in VoidNames \ {<<"b", "r">>} :
          /\ HasAt(tag, 2, v)
          /\ (Len(tag) = Len(v) + 1 \/ tag[Len(v) + 2] \notin WordChars)

\* _HTML5_VOID_ELEMENTS_RE.match(tag): '^<(?:area|...|wbr)\b'.  \b holds after the
\* name when the next character is not a word character, or at the end of tag.
HTML5_VOID_ELEMENTS_RE_match(tag) ==
    /\ Len(tag) >= 1
    /\ tag[1] = "<"
    /\ \E v \in VoidNames :
          /\ HasAt(tag, 2, v)
          /\ (Len(tag) = Len(v) + 1 \/ tag[Len(v) + 2] \notin WordChars)

----------------------------------------------------------------------------
(* generated_sanitize: the tag pattern and the character escapers *)

\* [a-zA-Z0-9:\-] of generated_sanitize._HTML_TAG_REGEX
TagNameChars == Letters \cup Digits \cup {":", "-"}

\* (?:[^>'"]|"[^"]*"|'[^']*')*> from position q: the index of the closing '>',
\* 0 when there is no match (an unterminated quote, or no '>').
RECURSIVE AttrsEnd(_, _)
AttrsEnd(s, q) ==
    IF q > Len(s) THEN 0
    ELSE IF s[q] = ">" THEN q
    ELSE IF s[q] \in {"\"", "'"}
         THEN LET r == IndexOf(s, s[q], q + 1)
              IN  IF r = 0 THEN 0 ELSE AttrsEnd(s, r + 1)
    ELSE AttrsEnd(s, q + 1)

NoMatch == [end |-> 0, name |-> <<>>, attrs |-> <<>>]

\* generated_sanitize._HTML_TAG_REGEX matched at position p of s:
\*   <(?:!|/?([a-zA-Z][a-zA-Z0-9:\-]*))(?:[^>'"]|"[^"]*"|'[^']*')*>
\* end is the index of the closing '>' (0: no match at p), name is group 1
\* (empty when the group did not take part).
HTML_TAG_REGEX_match(s, p) ==
    IF p >= Len(s) THEN NoMatch
    ELSE IF s[p] /= "<" THEN NoMatch
    ELSE IF s[p + 1] = "!"
         THEN [end |-> AttrsEnd(s, p + 2), name |-> <<>>, attrs |-> <<>>]
    ELSE LET q == IF s[p + 1] = "/" THEN p + 2 ELSE p + 1
         IN  IF q > Len(s) THEN NoMatch
             ELSE IF s[q] \notin Letters THEN NoMatch
             ELSE LET n == SpanEnd(s, q + 1, TagNameChars)
                  IN  [end |-> AttrsEnd(s, n), name |-> SubSeq(s, q, n - 1),
                       attrs |-> <<>>]

\* generated_sanitize._HTML_TAG_REGEX.sub('', s), scanning from position p
RECURSIVE HTML_TAG_REGEX_delete(_, _)
HTML_TAG_REGEX_delete(s, p) ==
    IF p > Len(s) THEN <<>>
    ELSE LET m == HTML_TAG_REGEX_match(s, p)
         IN  IF m.end = 0 THEN <<s[p]>> \o HTML_TAG_REGEX_delete(s, p + 1)
             ELSE HTML_TAG_REGEX_delete(s, m.end + 1)

\* generated_sanitize._LT_REGEX.sub('&lt;', s)
LT_REGEX_sub(s) ==
    Join([k \in 1..Len(s) |-> IF s[k] = "<" THEN <<"&","l","t",";">> ELSE <<s[k]>>])

\* generated_sanitize.normalize_html_helper: the HTML special characters other
\* than '&' are replaced by entities.
normalize_html_char(c) ==
    CASE c = "<"  -> <<"&","l","t",";">>
      [] c = ">"  -> <<"&","g","t",";">>
      [] c = "\"" -> <<"&","q","u","o","t",";">>
      [] c = "'"  -> <<"&","#","3","9",";">>
      [] OTHER    -> <<c>>

normalize_html_helper(s) == Join([k \in 1..Len(s) |-> normalize_html_char(s[k])])

----------------------------------------------------------------------------
(* _tag_sub_handler, _balance_tags, _strip_html_tags *)

\* str(value).replace('[', '&#91;')
escape_brackets(s) ==
    Join([k \in 1..Len(s) |-> IF s[k] = "[" THEN <<"&","#","9","1",";">> ELSE <<s[k]>>])

\* _tag_sub_handler keeping the text of the whole match, attributes included
tag_sub_handler_keeps_match(whitelist, tgs, s, p, m) ==
    IF lower(m.name) \in whitelist
    THEN [repl |-> <<"[">> \o FormatInt(Len(tgs)) \o <<"]">>,
          tags |-> Append(tgs, SubSeq(s, p, m.end))]
    ELSE [repl |-> <<>>, tags |-> tgs]

\* _tag_sub_handler deleting every tag, whitelisted or not
tag_sub_handler_deletes_all(whitelist, tgs, s, p, m) ==
    [repl |-> <<>>, tags |-> tgs]

\* _tag_sub_handler(tag_whitelist, tags, match) for the match m at position p of s:
\* the replacement text and the tag list after the call.
tag_sub_handler(whitelist, tgs, s, p, m) ==
    LET name == lower(m.name)
    IN  IF name \in whitelist
        THEN LET st == IF s[p + 1] = "/" THEN <<"<", "/">> ELSE <<"<">>
                 index == Len(tgs)
             IN  [repl |-> <<"[">> \o FormatInt(index) \o <<"]">>,
                  tags |-> Append(tgs, st \o name \o <<">">>)]
        ELSE [repl |-> <<>>, tags |-> tgs]

\* generated_sanitize._HTML_TAG_REGEX.sub(tag_handler, s) from position p, with
\* the output and the tag list built so far
RECURSIVE tag_sub(_, _, _, _, _)
tag_sub(whitelist, s, p, out, tgs) ==
    IF p > Len(s) THEN [html |-> out, tags |-> tgs]
    ELSE LET m == HTML_TAG_REGEX_match(s, p)
         IN  IF m.end = 0
             THEN tag_sub(whitelist, s, p + 1, Append(out, s[p]), tgs)
             ELSE LET h == tag_sub_handler(whitelist, tgs, s, p, m)
                  IN  tag_sub(whitelist, s, m.end + 1, out \o h.repl, h.tags)

\* the search of _balance_tags run from the bottom of the stack: the first
\* entry equal to tag, not the nearest
nearest_open_from_bottom(open, tag, index) ==
    LET M == {k \in 1..index : open[k] = tag}
    IN  IF M = {} THEN 0 ELSE CHOOSE k \in M : \A j \in M : k <= j

\* the index (1-based) of the nearest entry of open equal to tag, scanning from
\* the top; 0 when there is none (the while loop of _balance_tags)
RECURSIVE nearest_open(_, _, _)
nearest_open(open, tag, index) ==
    IF index >= 1 /\ open[index] /= tag THEN nearest_open(open, tag, index - 1)
    ELSE index

\* _balance_tags keeping a close tag that has no open tag
balance_step_keeps_dangling(open, tag) ==
    IF tag[2] = "/"
    THEN LET index == nearest_open(open, tag, Len(open))
         IN  IF index < 1
             THEN [open_tags |-> open, tag |-> tag, op |-> "drop"]
             ELSE [open_tags |-> SubSeq(open, 1, index - 1),
                   tag |-> Join(Reversed(From(open, index))), op |-> "close"]
    ELSE IF ~HTML5_VOID_ELEMENTS_RE_match(tag)
         THEN [open_tags |-> Append(open, <<"<", "/">> \o Tail(tag)),
               tag |-> tag, op |-> "push"]
         ELSE [open_tags |-> open, tag |-> tag, op |-> "void"]

\* one iteration of the loop of _balance_tags on tags[i] = tag: the open-tag
\* stack after it and the text tags[i] is left with
balance_step(open, tag) ==
    IF tag[2] = "/"
    THEN LET index == nearest_open(open, tag, Len(open))
         IN  IF index < 1
             THEN [open_tags |-> open, tag |-> <<>>, op |-> "drop"]
             ELSE [open_tags |-> SubSeq(open, 1, index - 1),
                   tag |-> Join(Reversed(From(open, index))), op |-> "close"]
    ELSE IF ~HTML5_VOID_ELEMENTS_RE_match(tag)
         THEN [open_tags |-> Append(open, <<"<", "/">> \o Tail(tag)),
               tag |-> tag, op |-> "push"]
         ELSE [open_tags |-> open, tag |-> tag, op |-> "void"]

\* the open tags closed in the order they were opened
final_close_unreversed(open) == Join(open)

\* return ''.join(reversed(open_tags))
final_close(open) == Join(Reversed(open))

\* _balance_tags(tags) from index k with the stack open: the rewritten tag list
\* and the returned auto-close suffix
RECURSIVE balance_tags_from(_, _, _)
balance_tags_from(tgs, k, open) ==
    IF k > Len(tgs) THEN [tags |-> tgs, final_close_tags |-> final_close(open)]
    ELSE LET b == balance_step(open, tgs[k])
         IN  balance_tags_from([tgs EXCEPT ![k] = b.tag], k + 1, b.open_tags)

balance_tags(tgs) == balance_tags_from(tgs, 1, <<>>)

\* _REPLACEMENT_TAG_RE.sub(lambda match: tags[int(match.group(1))], s) from p
RECURSIVE reinsert_tags(_, _, _)
reinsert_tags(s, p, tgs) ==
    IF p > Len(s) THEN <<>>
    ELSE IF s[p] = "["
         THEN LET n == SpanEnd(s, p + 1, Digits)
              IN  IF n > p + 1 /\ n <= Len(s) /\ s[n] = "]"
                  THEN tgs[ParseInt(SubSeq(s, p + 1, n - 1)) + 1]
                       \o reinsert_tags(s, n + 1, tgs)
                  ELSE <<s[p]>> \o reinsert_tags(s, p + 1, tgs)
    ELSE <<s[p]>> \o reinsert_tags(s, p + 1, tgs)

\* _strip_html_tags(value, tag_whitelist)
strip_html_tags(v, whitelist) ==
    IF whitelist = {}
    THEN LT_REGEX_sub(HTML_TAG_REGEX_delete(v, 1))
    ELSE LET marked == tag_sub(whitelist, escape_brackets(v), 1, <<>>, <<>>)
             normal == normalize_html_helper(marked.html)
             bal    == balance_tags(marked.tags)
         IN  reinsert_tags(normal, 1, bal.tags) \o bal.final_close_tags

----------------------------------------------------------------------------
(* The calls of _strip_html_tags that are explored *)

MaxStripPieces == 3

B    == <<"b">>
I    == <<"i">>
BR   == <<"b","r">>
BR_B == <<"b","r","-","b">>

\* the values of tag_whitelist: none, and lists of lower-case tag names
Whitelists == { {}, {B}, {B, I}, {B, I, BR}, {B, BR_B} }

StripPieces ==
    { <<"<">>,
      <<">">>,
      <<"b">>,
      <<"'">>,
      <<"[","0","]">>,
      <<"<","b",">">>,
      <<"<","/","b",">">>,
      <<"<","i",">">>,
      <<"<","/","i",">">>,
      <<"<","b","r",">">>,
      <<"<","b","r","-","b",">">>,
      <<"<","B"," ","a","=","'",">","'",">">> }

\* '<b>ok<i>bad</i></b>'
ExampleNested ==
    <<"<","b",">","o","k","<","i",">","b","a","d","<","/","i",">","<","/","b",">">>
\* '<<b>script>'
ExampleRecombine == <<"<","<","b",">","s","c","r","i","p","t",">">>
\* '</br><!-- c --><b>x</br-b>'
ExampleDangling ==
    <<"<","/","b","r",">","<","!","-","-"," ","c"," ","-","-",">","<","b",">","x","<","/",
      "b","r","-","b",">">>

\* the concatenations of at most n members of P
RECURSIVE Concats(_, _)
Concats(P, n) ==
    IF n = 0 THEN {<<>>}
    ELSE LET prev == Concats(P, n - 1)
         IN  prev \cup {a \o b : a \in prev, b \in P}

StripInputs ==
    Concats(StripPieces, MaxStripPieces)
        \cup {ExampleNested, ExampleRecombine, ExampleDangling}

NoEvent == [op |-> "none"]

\* the variables a call of _strip_html_tags does not use
StripUnused == <<text, start, removing_until, preserve_whitespace_stack, made>>

InitStrip ==
    /\ pc = "strip"
    /\ value \in StripInputs
    /\ tag_whitelist \in Whitelists
    /\ html = <<>>
    /\ tags = <<>>
    /\ i = 0
    /\ open_tags = <<>>
    /\ final_close_tags = <<>>
    /\ result = <<>>
    /\ text = <<>>
    /\ start = 0
    /\ removing_until = <<>>
    /\ preserve_whitespace_stack = <<>>
    /\ made = {}
    /\ event = NoEvent

\* if not tag_whitelist: return _LT_REGEX.sub('&lt;', _HTML_TAG_REGEX.sub('', value))
StripNoWhitelist ==
    /\ pc = "strip"
    /\ tag_whitelist = {}
    /\ result' = LT_REGEX_sub(HTML_TAG_REGEX_delete(value, 1))
    /\ pc' = "strip_done"
    /\ event' = [op |-> "no_whitelist"]
    /\ UNCHANGED <<value, tag_whitelist, html, tags, i, open_tags, final_close_tags>>
    /\ UNCHANGED StripUnused

\* html = str(value).replace('[', '&#91;')
StripEscapeBrackets ==
    /\ pc = "strip"
    /\ tag_whitelist /= {}
    /\ html' = escape_brackets(value)
    /\ tags' = <<>>
    /\ pc' = "strip_sub"
    /\ event' = [op |-> "escape_brackets"]
    /\ UNCHANGED <<value, tag_whitelist, i, open_tags, final_close_tags, result>>
    /\ UNCHANGED StripUnused

\* html = _HTML_TAG_REGEX.sub(tag_handler, html)
StripMarkTags ==
    /\ pc = "strip_sub"
    /\ LET r == tag_sub(tag_whitelist, html, 1, <<>>, tags)
       IN  /\ html' = r.html
           /\ tags' = r.tags
    /\ pc' = "strip_normalize"
    /\ event' = [op |-> "mark_tags"]
    /\ UNCHANGED <<value, tag_whitelist, i, open_tags, final_close_tags, result>>
    /\ UNCHANGED StripUnused

\* html = normalize_html_helper(html); then _balance_tags(tags) is entered
StripNormalize ==
    /\ pc = "strip_normalize"
    /\ html' = normalize_html_helper(html)
    /\ i' = 1
    /\ open_tags' = <<>>
    /\ pc' = "balance"
    /\ event' = [op |-> "normalize"]
    /\ UNCHANGED <<value, tag_whitelist, tags, final_close_tags, result>>
    /\ UNCHANGED StripUnused

\* one iteration of the loop of _balance_tags whose branch is op
BalanceIteration(op) ==
    /\ pc = "balance"
    /\ i <= Len(tags)
    /\ LET b == balance_step(open_tags, tags[i])
       IN  /\ b.op = op
           /\ open_tags' = b.open_tags
           /\ tags' = [tags EXCEPT ![i] = b.tag]
           /\ event' = [op |-> op, tag |-> tags[i], open_before |-> open_tags]
    /\ i' = i + 1
    /\ UNCHANGED <<pc, value, tag_whitelist, html, final_close_tags, result>>
    /\ UNCHANGED StripUnused

\* a close tag with no open tag: tags[i] = ''
BalanceDropClose ==
    /\ pc = "balance"
    /\ BalanceIteration("drop")
\* a close tag with an open tag: the tags from the match up are closed
BalanceClose ==
    /\ pc = "balance"
    /\ BalanceIteration("close")
\* an open tag of a non-void element
BalancePush ==
    /\ pc = "balance"
    /\ BalanceIteration("push")
\* an open tag of a void element
BalanceVoid ==
    /\ pc = "balance"
    /\ BalanceIteration("void")

\* return ''.join(reversed(open_tags))
BalanceReturn ==
    /\ pc = "balance"
    /\ i > Len(tags)
    /\ final_close_tags' = final_close(open_tags)
    /\ pc' = "strip_reinsert"
    /\ event' = [op |-> "balance_return"]
    /\ UNCHANGED <<value, tag_whitelist, html, tags, i, open_tags, result>>
    /\ UNCHANGED StripUnused

\* html = _REPLACEMENT_TAG_RE.sub(lambda match: tags[int(match.group(1))], html)
StripReinsert ==
    /\ pc = "strip_reinsert"
    /\ html' = reinsert_tags(html, 1, tags)
    /\ pc' = "strip_close"
    /\ event' = [op |-> "reinsert"]
    /\ UNCHANGED <<value, tag_whitelist, tags, i, open_tags, final_close_tags, result>>
    /\ UNCHANGED StripUnused

\* return html + final_close_tags
StripReturn ==
    /\ pc = "strip_close"
    /\ result' = html \o final_close_tags
    /\ pc' = "strip_done"
    /\ event' = [op |-> "return"]
    /\ UNCHANGED <<value, tag_whitelist, html, tags, i, open_tags, final_close_tags>>
    /\ UNCHANGED StripUnused

NextStrip ==
    \/ StripNoWhitelist
    \/ StripEscapeBrackets
    \/ StripMarkTags
    \/ StripNormalize
    \/ BalanceDropClose
    \/ BalanceClose
    \/ BalancePush
    \/ BalanceVoid
    \/ BalanceReturn
    \/ StripReinsert
    \/ StripReturn

SpecStrip == InitStrip /\ [][NextStrip]_vars

----------------------------------------------------------------------------
(* Sanitized classes *)

\* CONTENT_KIND: (HTML, JS, JS_STR_CHARS, URI, TRUSTED_RESOURCE_URI, ATTRIBUTES,
\* CSS, TEXT) = range(1, 9); 0 stands for content_kind = None
CONTENT_KIND ==
    [HTML |-> 1, JS |-> 2, JS_STR_CHARS |-> 3, URI |-> 4, TRUSTED_RESOURCE_URI |-> 5,
     ATTRIBUTES |-> 6, CSS |-> 7, TEXT |-> 8]

\* DIR: LTR, NEUTRAL, RTL = (1, 0, -1)
DIR == [LTR |-> 1, NEUTRAL |-> 0, RTL |-> -1]

\* the class attribute content_kind of SanitizedContent and of each child class
content_kind ==
    [SanitizedContent            |-> 0,
     SanitizedCss                |-> CONTENT_KIND.CSS,
     SanitizedHtml               |-> CONTENT_KIND.HTML,
     SanitizedHtmlAttribute      |-> CONTENT_KIND.ATTRIBUTES,
     SanitizedJs                 |-> CONTENT_KIND.JS,
     SanitizedJsStrChars         |-> CONTENT_KIND.JS_STR_CHARS,
     SanitizedUri                |-> CONTENT_KIND.URI,
     SanitizedTrustedResourceUri |-> CONTENT_KIND.TRUSTED_RESOURCE_URI]

Classes == DOMAIN content_kind

\* the child classes whose __init__(content, approval) passes DIR.LTR on
LtrClasses == {"SanitizedCss", "SanitizedHtmlAttribute", "SanitizedJs", "SanitizedUri",
               "SanitizedTrustedResourceUri"}

\* the least length of a justification SanitizedContent.__init__ accepts
MinJustificationLength == 20

\* IActuallyUnderstandSoyTypeSafetyAndHaveSecurityApproval(justification): the
\* class attribute justification = None stays when the argument is falsy
Approval(justification) ==
    [type |-> "approval",
     justification |-> IF Len(justification) > 0 THEN justification ELSE <<>>]

\* SanitizedContent.__new__(cls): whether it raises TypeError
new_raises(cls) == cls = "SanitizedContent" \/ content_kind[cls] = 0

\* init_raises with the length test off by one (len(justification) < 19)
init_raises_off_by_one(approval) ==
    IF approval.type /= "approval" THEN "no approval"
    ELSE IF Len(approval.justification) = 0
            \/ Len(approval.justification) < MinJustificationLength - 1
         THEN "justification"
    ELSE ""

\* SanitizedContent.__init__(content, content_dir, approval): the error raised,
\* "" when there is none
init_raises(approval) ==
    IF approval.type /= "approval" THEN "no approval"
    ELSE IF Len(approval.justification) = 0
            \/ Len(approval.justification) < MinJustificationLength
         THEN "justification"
    ELSE ""

\* the object cls(content, content_dir, approval=approval) once __init__ returned
sanitized(cls, content, content_dir) ==
    [cls |-> cls, content_kind |-> content_kind[cls], content |-> content,
     content_dir |-> IF cls \in LtrClasses THEN DIR.LTR ELSE content_dir]

\* is_content_kind(value, content_kind)
is_content_kind(v, kind) == v.cls \in Classes /\ v.content_kind = kind

\* str(value)
str(v) == IF v.cls = "NoneType" THEN <<"N","o","n","e">> ELSE v.content

(* The constructions that are explored *)

MaxMade == 1

JustificationLengths == {0, 19, 20, 33}
Justifications == {[k \in 1..n |-> "j"] : n \in JustificationLengths}

\* approval=None, approval='a string', and approval objects
Approvals == {[type |-> "NoneType"], [type |-> "str"]}
                 \cup {Approval(j) : j \in Justifications}

Contents == {<<>>, <<"<","b",">">>}
\* content_dir: None is 2
Dirs == {DIR.LTR, DIR.NEUTRAL, 2}

ContentUnused == <<value, tag_whitelist, html, tags, i, open_tags, final_close_tags,
                   text, start, removing_until, preserve_whitespace_stack>>

InitContent ==
    /\ pc = "content"
    /\ value = <<>>
    /\ tag_whitelist = {}
    /\ html = <<>>
    /\ tags = <<>>
    /\ i = 0
    /\ open_tags = <<>>
    /\ final_close_tags = <<>>
    /\ result = [cls |-> "NoneType"]
    /\ text = <<>>
    /\ start = 0
    /\ removing_until = <<>>
    /\ preserve_whitespace_stack = <<>>
    /\ made = {}
    /\ event = NoEvent

Call(cls, content, content_dir, approval, raised) ==
    [op |-> "construct", cls |-> cls, content |-> content, content_dir |-> content_dir,
     approval |-> approval, raised |-> raised]

\* __new__ raises TypeError: cls is SanitizedContent or has no content_kind
ConstructAbstract ==
    \E cls \in Classes, c \in Contents, d \in Dirs, a \in Approvals :
        /\ pc = "content"
        /\ Cardinality(made) < MaxMade
        /\ new_raises(cls)
        /\ event' = Call(cls, c, d, a, "TypeError")
        /\ result' = [cls |-> "NoneType"]
        /\ UNCHANGED <<pc, made>>
        /\ UNCHANGED ContentUnused

\* __init__ raises TypeError: approval is no approval object
ConstructNoApproval ==
    \E cls \in Classes, c \in Contents, d \in Dirs, a \in Approvals :
        /\ pc = "content"
        /\ Cardinality(made) < MaxMade
        /\ ~new_raises(cls)
        /\ init_raises(a) = "no approval"
        /\ event' = Call(cls, c, d, a, "TypeError")
        /\ result' = [cls |-> "NoneType"]
        /\ UNCHANGED <<pc, made>>
        /\ UNCHANGED ContentUnused

\* __init__ raises TypeError: the justification is missing or too short
ConstructShortJustification ==
    \E cls \in Classes, c \in Contents, d \in Dirs, a \in Approvals :
        /\ pc = "content"
        /\ Cardinality(made) < MaxMade
        /\ ~new_raises(cls)
        /\ init_raises(a) = "justification"
        /\ event' = Call(cls, c, d, a, "TypeError")
        /\ result' = [cls |-> "NoneType"]
        /\ UNCHANGED <<pc, made>>
        /\ UNCHANGED ContentUnused

\* the object is made: self.content = content; self.content_dir = content_dir
ConstructOk ==
    \E cls \in Classes, c \in Contents, d \in Dirs, a \in Approvals :
        /\ pc = "content"
        /\ Cardinality(made) < MaxMade
        /\ ~new_raises(cls)
        /\ init_raises(a) = ""
        /\ event' = Call(cls, c, d, a, "")
        /\ result' = sanitized(cls, c, d)
        /\ made' = made \cup {sanitized(cls, c, d)}
        /\ UNCHANGED pc
        /\ UNCHANGED ContentUnused

NextContent ==
    \/ ConstructAbstract
    \/ ConstructNoApproval
    \/ ConstructShortJustification
    \/ ConstructOk

SpecContent == InitContent /\ [][NextContent]_vars

----------------------------------------------------------------------------
(* html_to_text: the patterns *)

\* [\w:-] of _TAG_RE
TagReNameChars == WordChars \cup {":", "-"}

\* [ \t\r\n] of _HTML_WHITESPACE_RE, _ATTR_RE and _STYLE_RE
HtmlWhitespace == {" ", "\t", "\r", "\n"}

\* U+00A0
NBSP == "NBSP"

NoTag == [offset |-> 0, end |-> 0, tag |-> <<>>, attrs |-> <<>>, at_end |-> FALSE]

\* _TAG_RE matched at position p of s (the alternative before '|\Z'):
\*   <(?:!--.*?--|(?:!|(/?[a-z][\w:-]*))((?:[^>'"]|"[^"]*"|'[^']*')*))>
\* with re.IGNORECASE; '.' matches no newline.  end is the index of the closing
\* '>' (0: no match at p), tag is group 1 and attrs group 2 (empty when None).
TAG_RE_match(s, p) ==
    IF p >= Len(s) THEN NoTag
    ELSE IF s[p] /= "<" THEN NoTag
    ELSE IF s[p + 1] = "!"
         THEN LET r == IF HasAt(s, p + 2, <<"-", "-">>)
                       THEN FindSub(s, <<"-", "-", ">">>, p + 4) ELSE 0
                  comment == r /= 0 /\ \A k \in (p + 4)..(r - 1) : s[k] /= "\n"
                  e == AttrsEnd(s, p + 2)
              IN  IF comment
                  THEN [offset |-> p, end |-> r + 2, tag |-> <<>>, attrs |-> <<>>,
                        at_end |-> FALSE]
                  ELSE IF e = 0 THEN NoTag
                  ELSE [offset |-> p, end |-> e, tag |-> <<>>,
                        attrs |-> SubSeq(s, p + 2, e - 1), at_end |-> FALSE]
    ELSE LET q == IF s[p + 1] = "/" THEN p + 2 ELSE p + 1
         IN  IF q > Len(s) THEN NoTag
             ELSE IF s[q] \notin Letters THEN NoTag
             ELSE LET n == SpanEnd(s, q + 1, TagReNameChars)
                      e == AttrsEnd(s, n)
                  IN  IF e = 0 THEN NoTag
                      ELSE [offset |-> p, end |-> e, tag |-> SubSeq(s, p + 1, n - 1),
                            attrs |-> SubSeq(s, n, e - 1), at_end |-> FALSE]

\* the next match of _TAG_RE.finditer(s) at or after position p: a tag, or the
\* empty match of '\Z' at the end of s
RECURSIVE TAG_RE_search(_, _)
TAG_RE_search(s, p) ==
    IF p > Len(s)
    THEN [offset |-> Len(s) + 1, end |-> Len(s), tag |-> <<>>, attrs |-> <<>>,
          at_end |-> TRUE]
    ELSE LET m == TAG_RE_match(s, p)
         IN  IF m.end /= 0 THEN m ELSE TAG_RE_search(s, p + 1)

\* [a-zA-Z0-9:\\-] of _ATTR_RE
AttrNameChars == Letters \cup Digits \cup {":", "\\", "-"}

\* _ATTR_RE matched at position p of s:
\*   ([a-zA-Z][a-zA-Z0-9:\\-]*)[\t\n\r ]*=[\t\n\r ]*("[^"]*"|'[^']*')
\* end is the index of the closing quote (0: no match at p)
ATTR_RE_match(s, p) ==
    IF p > Len(s) THEN [end |-> 0, name |-> <<>>, val |-> <<>>]
    ELSE IF s[p] \notin Letters THEN [end |-> 0, name |-> <<>>, val |-> <<>>]
    ELSE LET n  == SpanEnd(s, p + 1, AttrNameChars)
             eq == SpanEnd(s, n, HtmlWhitespace)
             v  == SpanEnd(s, eq + 1, HtmlWhitespace)
             ok == /\ eq <= Len(s) /\ s[eq] = "="
                   /\ v <= Len(s) /\ s[v] \in {"\"", "'"}
             e  == IF ok THEN IndexOf(s, s[v], v + 1) ELSE 0
         IN  IF e = 0 THEN [end |-> 0, name |-> <<>>, val |-> <<>>]
             ELSE [end |-> e, name |-> SubSeq(s, p, n - 1), val |-> SubSeq(s, v, e)]

\* [^:;\t\n\r ] of _STYLE_RE
StyleStop == {":", ";", "\t", "\n", "\r", " "}

\* the first index >= q of s whose character is in stop
RECURSIVE SpanUntil(_, _, _)
SpanUntil(s, q, stop) ==
    IF q <= Len(s) /\ s[q] \notin stop THEN SpanUntil(s, q + 1, stop) ELSE q

\* _STYLE_RE matched at position p of s:
\*   [\t\n\r ]*([^:;\t\n\r ]*)[\t\n\r ]*:[\t\n\r ]*([^:;\t\n\r ]*)[\t\n\r ]*(?:;|\Z)
\* end is the index of the last character matched (0: no match at p)
STYLE_RE_match(s, p) ==
    LET a  == SpanEnd(s, p, HtmlWhitespace)
        b  == SpanUntil(s, a, StyleStop)
        c  == SpanEnd(s, b, HtmlWhitespace)
        ok == c <= Len(s) /\ s[c] = ":"
        d  == SpanEnd(s, c + 1, HtmlWhitespace)
        f  == SpanUntil(s, d, StyleStop)
        g  == SpanEnd(s, f, HtmlWhitespace)
    IN  IF ~ok THEN [end |-> 0, attribute |-> <<>>, val |-> <<>>]
        ELSE IF g > Len(s)
             THEN [end |-> Len(s), attribute |-> SubSeq(s, a, b - 1),
                   val |-> SubSeq(s, d, f - 1)]
        ELSE IF s[g] = ";"
             THEN [end |-> g, attribute |-> SubSeq(s, a, b - 1),
                   val |-> SubSeq(s, d, f - 1)]
        ELSE [end |-> 0, attribute |-> <<>>, val |-> <<>>]

\* _REMOVING_TAGS_RE.match(tag): (script|style|textarea|title)$
REMOVING_TAGS_RE_match(tag) ==
    tag \in { <<"s","c","r","i","p","t">>, <<"s","t","y","l","e">>,
              <<"t","e","x","t","a","r","e","a">>, <<"t","i","t","l","e">> }

\* _WS_PRESERVING_TAGS_RE.match(tag): pre$
WS_PRESERVING_TAGS_RE_match(tag) == tag = <<"p","r","e">>

\* _NEWLINE_TAGS_RE.match(tag): br$
NEWLINE_TAGS_RE_match(tag) == tag = <<"b","r">>

\* the names _BLOCK_TAGS_RE lists
BlockNames ==
    { <<"a","d","d","r","e","s","s">>, <<"b","l","o","c","k","q","u","o","t","e">>,
      <<"d","d">>, <<"d","i","v">>, <<"d","l">>, <<"d","t">>, <<"h","1">>, <<"h","2">>,
      <<"h","3">>, <<"h","4">>, <<"h","5">>, <<"h","6">>, <<"h","r">>, <<"l","i">>,
      <<"o","l">>, <<"p">>, <<"p","r","e">>, <<"t","a","b","l","e">>, <<"t","r">>,
      <<"u","l">> }

\* _BLOCK_TAGS_RE.match(tag): /?(address|...|ul)$
BLOCK_TAGS_RE_match(tag) ==
    \/ tag \in BlockNames
    \/ Len(tag) >= 1 /\ tag[1] = "/" /\ Tail(tag) \in BlockNames

\* _TAB_TAGS_RE.match(tag): (td|th)$
TAB_TAGS_RE_match(tag) == tag \in { <<"t","d">>, <<"t","h">> }

\* _HTML_WHITESPACE_RE.sub(' ', chunk): [ \t\r\n]+ becomes one space
RECURSIVE HTML_WHITESPACE_RE_sub(_, _)
HTML_WHITESPACE_RE_sub(s, p) ==
    IF p > Len(s) THEN <<>>
    ELSE IF s[p] \in HtmlWhitespace
         THEN <<" ">> \o HTML_WHITESPACE_RE_sub(s, SpanEnd(s, p, HtmlWhitespace))
    ELSE <<s[p]>> \o HTML_WHITESPACE_RE_sub(s, p + 1)

\* _TRAILING_NON_WHITESPACE_RE taking only the space for whitespace: [^ ]\Z
TRAILING_NON_WHITESPACE_RE_search_space_only(t) == t /= <<>> /\ t[Len(t)] /= " "

\* _TRAILING_NON_WHITESPACE_RE.search(text): [^ \t\r\n]\Z
TRAILING_NON_WHITESPACE_RE_search(t) == t /= <<>> /\ t[Len(t)] \notin HtmlWhitespace

\* _TRAILING_NON_NEWLINE_RE.search(text): [^\n]\Z
TRAILING_NON_NEWLINE_RE_search(t) == t /= <<>> /\ t[Len(t)] /= "\n"

\* _LEADING_SPACE_RE.sub('', chunk): ^ 
LEADING_SPACE_RE_sub(s) == IF s /= <<>> /\ s[1] = " " THEN Tail(s) ELSE s

\* _PRESERVE_WHITESPACE_STYLES_RE.match(v): (pre|pre-wrap|break-spaces)$, IGNORECASE
PRESERVE_WHITESPACE_STYLES_RE_match(v) ==
    lower(v) \in { <<"p","r","e">>, <<"p","r","e","-","w","r","a","p">>,
              <<"b","r","e","a","k","-","s","p","a","c","e","s">> }

\* _COLLAPSE_WHITESPACE_STYLES_RE.match(v): (normal|nowrap)$, IGNORECASE
COLLAPSE_WHITESPACE_STYLES_RE_match(v) ==
    lower(v) \in { <<"n","o","r","m","a","l">>, <<"n","o","w","r","a","p">> }

\* the character references html.unescape replaces, among those the explored
\* inputs hold
Entities ==
    { [ref |-> <<"&","n","b","s","p",";">>, char |-> NBSP],
      [ref |-> <<"&","l","t",";">>, char |-> "<"],
      [ref |-> <<"&","g","t",";">>, char |-> ">"],
      [ref |-> <<"&","a","m","p",";">>, char |-> "&"],
      [ref |-> <<"&","#","3","2",";">>, char |-> " "] }

\* html_module.unescape(chunk), from position p
RECURSIVE unescape(_, _)
unescape(s, p) ==
    IF p > Len(s) THEN <<>>
    ELSE IF \E e \in Entities : HasAt(s, p, e.ref)
         THEN LET e == CHOOSE e \in Entities : HasAt(s, p, e.ref)
              IN  <<e.char>> \o unescape(s, p + Len(e.ref))
    ELSE <<s[p]>> \o unescape(s, p + 1)

\* text.replace('\u00A0', ' ')
replace_nbsp(t) == [k \in 1..Len(t) |-> IF t[k] = NBSP THEN " " ELSE t[k]]

----------------------------------------------------------------------------
(* html_to_text: the nested functions.  A function that returns True, False or
   None returns "True", "False" or "None". *)

\* should_preserve_whitespace()
should_preserve_whitespace(stack) ==
    IF stack /= <<>> THEN stack[Len(stack)][2] ELSE FALSE

\* get_style_preserves_whitespace(style), the loop over _STYLE_RE.finditer(style)
\* from position p
RECURSIVE get_style_preserves_whitespace(_, _)
get_style_preserves_whitespace(style, p) ==
    IF p > Len(style) THEN "None"
    ELSE LET m == STYLE_RE_match(style, p)
         IN  IF m.end = 0 THEN get_style_preserves_whitespace(style, p + 1)
             ELSE IF m.attribute /= <<>>
                     /\ lower(m.attribute) = <<"w","h","i","t","e","-","s","p","a","c","e">>
                     /\ PRESERVE_WHITESPACE_STYLES_RE_match(m.val)
                  THEN "True"
             ELSE IF m.attribute /= <<>>
                     /\ lower(m.attribute) = <<"w","h","i","t","e","-","s","p","a","c","e">>
                     /\ COLLAPSE_WHITESPACE_STYLES_RE_match(m.val)
                  THEN "False"
             ELSE get_style_preserves_whitespace(style, m.end + 1)

\* the loop of get_attributes_preserve_whitespace over _ATTR_RE.finditer(attrs)
\* from position p
RECURSIVE attributes_loop(_, _)
attributes_loop(attrs, p) ==
    IF p > Len(attrs) THEN "None"
    ELSE LET m == ATTR_RE_match(attrs, p)
         IN  IF m.end = 0 THEN attributes_loop(attrs, p + 1)
             ELSE IF lower(m.name) = <<"s","t","y","l","e">>
                  THEN \* the quotes are stripped: style = style[1:-1]
                       get_style_preserves_whitespace(SubSeq(m.val, 2, Len(m.val) - 1), 1)
             ELSE attributes_loop(attrs, m.end + 1)

\* get_attributes_preserve_whitespace(attrs)
get_attributes_preserve_whitespace(attrs) ==
    IF attrs = <<>> THEN "None" ELSE attributes_loop(attrs, 1)

\* while preserve_whitespace_stack and preserve_whitespace_stack.pop()[0] != tag
RECURSIVE pop_until(_, _)
pop_until(stack, tag) ==
    IF stack = <<>> THEN <<>>
    ELSE LET top  == stack[Len(stack)]
             rest == SubSeq(stack, 1, Len(stack) - 1)
         IN  IF top[1] /= tag THEN pop_until(rest, tag) ELSE rest

\* update_preserve_whitespace_stack without the inheritance from the parent
\* tag: an unstyled tag collapses
update_preserve_whitespace_stack_no_inherit(stack, tag, attrs) ==
    IF tag[1] = "/" THEN pop_until(stack, Tail(tag))
    ELSE IF WS_PRESERVING_TAGS_RE_match(tag) THEN Append(stack, <<tag, TRUE>>)
    ELSE Append(stack, <<tag, get_attributes_preserve_whitespace(attrs) = "True">>)

\* update_preserve_whitespace_stack(tag, attrs): the stack after the call
update_preserve_whitespace_stack(stack, tag, attrs) ==
    IF tag[1] = "/" THEN pop_until(stack, Tail(tag))
    ELSE IF WS_PRESERVING_TAGS_RE_match(tag) THEN Append(stack, <<tag, TRUE>>)
    ELSE LET preserve_whitespace == get_attributes_preserve_whitespace(attrs)
         IN  IF preserve_whitespace = "None"
             THEN Append(stack, <<tag, should_preserve_whitespace(stack)>>)
             ELSE Append(stack, <<tag, preserve_whitespace = "True">>)

\* the chunk appended with the test of the buffer inverted: the leading space
\* goes when the buffer ends in a character that is no whitespace
append_chunk_drops_after_text(t, chunk, stack) ==
    LET unescaped == unescape(chunk, 1)
    IN  IF ~should_preserve_whitespace(stack)
        THEN LET collapsed == HTML_WHITESPACE_RE_sub(unescaped, 1)
             IN  IF t = <<>> \/ TRAILING_NON_WHITESPACE_RE_search(t)
                 THEN t \o LEADING_SPACE_RE_sub(collapsed)
                 ELSE t \o collapsed
        ELSE t \o unescaped

\* text after the chunk before a match is appended (lines 221-227)
append_chunk(t, chunk, stack) ==
    LET unescaped == unescape(chunk, 1)
    IN  IF ~should_preserve_whitespace(stack)
        THEN LET collapsed == HTML_WHITESPACE_RE_sub(unescaped, 1)
             IN  IF ~TRAILING_NON_WHITESPACE_RE_search(t)
                 THEN t \o LEADING_SPACE_RE_sub(collapsed)
                 ELSE t \o collapsed
        ELSE t \o unescaped

\* the branch of 'if tag:' a tag takes when no raw-text region is active
tag_branch(tag) ==
    IF tag = <<>> THEN "no_tag"
    ELSE IF REMOVING_TAGS_RE_match(tag) THEN "removing"
    ELSE IF NEWLINE_TAGS_RE_match(tag) THEN "newline"
    ELSE IF BLOCK_TAGS_RE_match(tag) THEN "block"
    ELSE IF TAB_TAGS_RE_match(tag) THEN "tab"
    ELSE "other"

\* text after the tag's own output is appended (lines 229-237)
append_for_tag(t, tag) ==
    CASE tag_branch(tag) = "newline" -> Append(t, "\n")
      [] tag_branch(tag) = "block" ->
            IF TRAILING_NON_NEWLINE_RE_search(t) THEN Append(t, "\n") ELSE t
      [] tag_branch(tag) = "tab" -> Append(t, "\t")
      [] OTHER -> t

\* whether line 239 lets the tag update the whitespace stack
updates_stack(tag) ==
    tag /= <<>> /\ ~HTML5_VOID_ELEMENTS_RE_match(<<"<">> \o tag \o <<">">>)

----------------------------------------------------------------------------
(* The calls of html_to_text that are explored *)

MaxHtmlPieces == 3

HtmlPieces ==
    { <<" ">>,
      <<"a">>,
      <<"\n">>,
      <<"&","n","b","s","p",";">>,
      <<"<","p","r","e",">">>,
      <<"<","/","p","r","e",">">>,
      <<"<","p",">">>,
      <<"<","b","r",">">>,
      <<"<","/","b","r",">">>,
      <<"<","s","c","r","i","p","t",">">>,
      <<"<","/","S","C","R","I","P","T",">">>,
      <<"<","t","d",">">>,
      <<"<","i",">">>,
      <<"<","/","b",">">>,
      <<"<","b"," ","s","t","y","l","e","=","'","w","h","i","t","e","-","s","p","a","c",
        "e",":","p","r","e","'",">">>,
      <<"<","b"," ","s","t","y","l","e","=","\"","w","h","i","t","e","-","s","p","a","c",
        "e",":","n","o","r","m","a","l","\"",">">> }

\* <script>alert('<p>x</p>')</script>Done
ExampleScript ==
    <<"<","s","c","r","i","p","t",">","a","l","e","r","t","(","'","<","p",">","x","<","/",
      "p",">","'",")","<","/","s","c","r","i","p","t",">","D","o","n","e">>

\* x  y<pre>  a\n  b  </pre>c  d
ExamplePre ==
    <<"x"," "," ","y","<","p","r","e",">"," "," ","a","\n"," "," ","b"," "," ","<","/","p",
      "r","e",">","c"," "," ","d">>

\* <p>Hello&nbsp;<b>World</b></p>
ExampleHello ==
    <<"<","p",">","H","e","l","l","o","&","n","b","s","p",";","<","b",">","W","o","r","l",
      "d","<","/","b",">","<","/","p",">">>

\* <pre style='white-space:normal'> a  <i> b  <u style='white-space:nowrap'> c  </u>  d</i></pre> e  f
ExampleInherit ==
    <<"<","p","r","e"," ","s","t","y","l","e","=","'","w","h","i","t","e","-","s","p","a",
      "c","e",":","n","o","r","m","a","l","'",">"," ","a"," "," ","<","i",">"," ","b"," ",
      " ","<","u"," ","s","t","y","l","e","=","'","w","h","i","t","e","-","s","p","a","c",
      "e",":","n","o","w","r","a","p","'",">"," ","c"," "," ","<","/","u",">"," "," ","d",
      "<","/","i",">","<","/","p","r","e",">"," ","e"," "," ","f">>

\* <b style="white-space:pre-wrap"> a  <i style='white-space:pre-line'> b  <u style='color:red; WHITE-SPACE : Break-Spaces'>  c</u></i></b>  <!-- x --><P style="white-space:nowrap"> d  </P>
ExampleStyles ==
    <<"<","b"," ","s","t","y","l","e","=","\"","w","h","i","t","e","-","s","p","a","c","e",
      ":","p","r","e","-","w","r","a","p","\"",">"," ","a"," "," ","<","i"," ","s","t","y",
      "l","e","=","'","w","h","i","t","e","-","s","p","a","c","e",":","p","r","e","-","l",
      "i","n","e","'",">"," ","b"," "," ","<","u"," ","s","t","y","l","e","=","'","c","o",
      "l","o","r",":","r","e","d",";"," ","W","H","I","T","E","-","S","P","A","C","E"," ",
      ":"," ","B","r","e","a","k","-","S","p","a","c","e","s","'",">"," "," ","c","<","/",
      "u",">","<","/","i",">","<","/","b",">"," "," ","<","!","-","-"," ","x"," ","-","-",
      ">","<","P"," ","s","t","y","l","e","=","\"","w","h","i","t","e","-","s","p","a","c",
      "e",":","n","o","w","r","a","p","\"",">"," ","d"," "," ","<","/","P",">">>

\* a<title>b<p>c<script>d</script>e
ExampleUnterminated ==
    <<"a","<","t","i","t","l","e",">","b","<","p",">","c","<","s","c","r","i","p","t",">",
      "d","<","/","s","c","r","i","p","t",">","e">>

HtmlExamples ==
    {ExampleScript, ExamplePre, ExampleHello, ExampleInherit,
     ExampleStyles, ExampleUnterminated}

HtmlInputs == Concats(HtmlPieces, MaxHtmlPieces) \cup HtmlExamples

\* the arguments: None, a str, a SanitizedJs, and SanitizedHtml objects
HtmlValues ==
    {[cls |-> "NoneType"], [cls |-> "str", content |-> ExampleHello],
     sanitized("SanitizedJs", ExampleHello, DIR.LTR)}
        \cup {sanitized("SanitizedHtml", c, DIR.LTR) : c \in HtmlInputs}

HtmlUnused == <<tag_whitelist, tags, i, open_tags, final_close_tags, made>>

InitHtmlToText ==
    /\ pc = "html_to_text"
    /\ value \in HtmlValues
    /\ tag_whitelist = {}
    /\ html = <<>>
    /\ tags = <<>>
    /\ i = 0
    /\ open_tags = <<>>
    /\ final_close_tags = <<>>
    /\ result = <<>>
    /\ text = <<>>
    /\ start = 0
    /\ removing_until = <<>>
    /\ preserve_whitespace_stack = <<>>
    /\ made = {}
    /\ event = NoEvent

\* if value is None: return ''
HtmlToTextNone ==
    /\ pc = "html_to_text"
    /\ value.cls = "NoneType"
    /\ result' = <<>>
    /\ pc' = "done"
    /\ event' = [op |-> "none"]
    /\ UNCHANGED <<value, html, text, start, removing_until, preserve_whitespace_stack>>
    /\ UNCHANGED HtmlUnused

\* if not isinstance(value, SanitizedHtml): return html
HtmlToTextNotHtml ==
    /\ pc = "html_to_text"
    /\ value.cls \notin {"NoneType", "SanitizedHtml"}
    /\ html' = str(value)
    /\ result' = str(value)
    /\ pc' = "done"
    /\ event' = [op |-> "not_html"]
    /\ UNCHANGED <<value, text, start, removing_until, preserve_whitespace_stack>>
    /\ UNCHANGED HtmlUnused

\* text = ''; start = 0; removing_until = ''; preserve_whitespace_stack = []
HtmlToTextEnter ==
    /\ pc = "html_to_text"
    /\ value.cls = "SanitizedHtml"
    /\ html' = str(value)
    /\ text' = <<>>
    /\ start' = 1
    /\ removing_until' = <<>>
    /\ preserve_whitespace_stack' = <<>>
    /\ pc' = "loop"
    /\ event' = [op |-> "enter"]
    /\ UNCHANGED <<value, result>>
    /\ UNCHANGED HtmlUnused

\* the raw-text region ended by any closing tag
ends_region_any_close(until, tag) == tag /= <<>> /\ tag[1] = "/"

\* elif removing_until == tag
ends_region(until, tag) == until = tag

\* the match the next iteration of 'for match in _TAG_RE.finditer(html)' handles
NextMatch == TAG_RE_search(html, start)

\* what an iteration records of the state it started in
Iteration(op, m) ==
    [op |-> op, tag |-> lower(m.tag), attrs |-> m.attrs,
     chunk |-> SubSeq(html, start, m.offset - 1), at_end |-> m.at_end,
     text_before |-> text, stack_before |-> preserve_whitespace_stack,
     removing_before |-> removing_until]

\* the end of every iteration: start = match.end(); the loop ends after the
\* match of '\Z'
EndIteration(op, m) ==
    /\ start' = m.end + 1
    /\ pc' = IF m.at_end THEN "return" ELSE "loop"
    /\ event' = Iteration(op, m)
    /\ UNCHANGED <<value, html, result>>
    /\ UNCHANGED HtmlUnused

\* removing_until is set and is not this tag: nothing is done
HtmlToTextSkip ==
    /\ pc = "loop"
    /\ LET m == NextMatch
       IN  /\ removing_until /= <<>>
           /\ ~ends_region(removing_until, lower(m.tag))
           /\ UNCHANGED <<text, removing_until, preserve_whitespace_stack>>
           /\ EndIteration("skip", m)

\* elif removing_until == tag: removing_until = ''
HtmlToTextEndRegion ==
    /\ pc = "loop"
    /\ LET m == NextMatch
       IN  /\ removing_until /= <<>>
           /\ ends_region(removing_until, lower(m.tag))
           /\ removing_until' = <<>>
           /\ UNCHANGED <<text, preserve_whitespace_stack>>
           /\ EndIteration("end_region", m)

\* if not removing_until: the chunk is appended and the tag, whose branch of
\* 'if tag:' is branch, is handled
HtmlToTextTag(branch) ==
    /\ pc = "loop"
    /\ LET m     == NextMatch
           tag   == lower(m.tag)
           chunk == SubSeq(html, start, m.offset - 1)
       IN  /\ removing_until = <<>>
           /\ tag_branch(tag) = branch
           /\ text' = append_for_tag(
                          append_chunk(text, chunk, preserve_whitespace_stack), tag)
           /\ removing_until' =
                  IF branch = "removing" THEN <<"/">> \o tag ELSE removing_until
           /\ preserve_whitespace_stack' =
                  IF updates_stack(tag)
                  THEN update_preserve_whitespace_stack(
                           preserve_whitespace_stack, tag, m.attrs)
                  ELSE preserve_whitespace_stack
           /\ EndIteration(branch, m)

\* a match without a tag name: a comment, '<!...>', or the end of html
HtmlToTextNoTag ==
    /\ pc = "loop"
    /\ HtmlToTextTag("no_tag")
\* if _REMOVING_TAGS_RE.match(tag): removing_until = '/' + tag
HtmlToTextRemoving ==
    /\ pc = "loop"
    /\ HtmlToTextTag("removing")
\* elif _NEWLINE_TAGS_RE.match(tag): text += '\n'
HtmlToTextNewline ==
    /\ pc = "loop"
    /\ HtmlToTextTag("newline")
\* elif _BLOCK_TAGS_RE.match(tag): a newline unless text ends with one
HtmlToTextBlock ==
    /\ pc = "loop"
    /\ HtmlToTextTag("block")
\* elif _TAB_TAGS_RE.match(tag): text += '\t'
HtmlToTextTab ==
    /\ pc = "loop"
    /\ HtmlToTextTag("tab")
\* any other tag
HtmlToTextOther ==
    /\ pc = "loop"
    /\ HtmlToTextTag("other")

\* return text.replace('\u00A0', ' ')
HtmlToTextReturn ==
    /\ pc = "return"
    /\ result' = replace_nbsp(text)
    /\ pc' = "done"
    /\ event' = [op |-> "return"]
    /\ UNCHANGED <<value, html, text, start, removing_until, preserve_whitespace_stack>>
    /\ UNCHANGED HtmlUnused

NextHtmlToText ==
    \/ HtmlToTextNone
    \/ HtmlToTextNotHtml
    \/ HtmlToTextEnter
    \/ HtmlToTextSkip
    \/ HtmlToTextEndRegion
    \/ HtmlToTextNoTag
    \/ HtmlToTextRemoving
    \/ HtmlToTextNewline
    \/ HtmlToTextBlock
    \/ HtmlToTextTab
    \/ HtmlToTextOther
    \/ HtmlToTextReturn

SpecHtmlToText == InitHtmlToText /\ [][NextHtmlToText]_vars

----------------------------------------------------------------------------
(* The three calls together *)

Init == InitContent \/ InitStrip \/ InitHtmlToText

Next == NextContent \/ NextStrip \/ NextHtmlToText

Spec == Init /\ [][Next]_vars

----------------------------------------------------------------------------
(* Properties: reading the tags of an output *)

\* the tag of the exact form <name> or </name> that starts at the '<' at
\* position p of out; ok is FALSE when the '<' starts no such tag
OutputTagAt(out, p) ==
    LET q == IF p < Len(out) /\ out[p + 1] = "/" THEN p + 2 ELSE p + 1
        n == SpanEnd(out, q, Lower \cup Digits \cup {":", "-"})
    IN  IF q <= Len(out) /\ out[q] \in Lower /\ n <= Len(out) /\ out[n] = ">"
        THEN [ok |-> TRUE, close |-> q = p + 2, name |-> SubSeq(out, q, n - 1), end |-> n]
        ELSE [ok |-> FALSE, close |-> FALSE, name |-> <<>>, end |-> p]

\* the positions of '<' in out
LtPositions(out) == {p \in 1..Len(out) : out[p] = "<"}

\* whether the tags of out from position p on are well nested, given the stack
\* of the non-void elements open before p: a closing tag closes the element
\* opened last, and nothing is open at the end
RECURSIVE WellNestedFrom(_, _, _)
WellNestedFrom(out, p, stack) ==
    IF p > Len(out) THEN stack = <<>>
    ELSE IF out[p] /= "<" THEN WellNestedFrom(out, p + 1, stack)
    ELSE LET t == OutputTagAt(out, p)
         IN  IF ~t.ok THEN WellNestedFrom(out, p + 1, stack)
             ELSE IF t.close
                  THEN /\ stack /= <<>>
                       /\ stack[Len(stack)] = t.name
                       /\ WellNestedFrom(out, t.end + 1, SubSeq(stack, 1, Len(stack) - 1))
             ELSE IF t.name \in VoidNames THEN WellNestedFrom(out, t.end + 1, stack)
             ELSE WellNestedFrom(out, t.end + 1, Append(stack, t.name))

\* a name the balancer does not push: a void element, or a name that goes on
\* after a void element's name with '-' or ':'
TreatedAsVoid(name) ==
    \E v \in VoidNames :
        /\ Len(name) >= Len(v)
        /\ SubSeq(name, 1, Len(v)) = v
        /\ (Len(name) = Len(v) \/ name[Len(v) + 1] \in {"-", ":"})

\* every opening tag of out that needs one has a closing tag of its name after
\* it, and every closing tag has an opening tag of its name before it
Balanced(out, needs_close(_)) ==
    LET P == {p \in LtPositions(out) : OutputTagAt(out, p).ok}
        t(p) == OutputTagAt(out, p)
    IN  /\ \A p \in P : (~t(p).close /\ needs_close(t(p).name)) =>
              \E q \in P : q > p /\ t(q).close /\ t(q).name = t(p).name
        /\ \A q \in P : t(q).close =>
              \E p \in P : p < q /\ ~t(p).close /\ t(p).name = t(q).name

AnyName(name) == TRUE
NotTreatedAsVoid(name) == ~TreatedAsVoid(name)

StripDone == pc = "strip_done"

----------------------------------------------------------------------------
(* C1 *)

\* what the claim calls a construction that must fail
MustFail(call) ==
    \/ call.approval.type /= "approval"
    \/ Len(call.approval.justification) < 20
    \/ call.cls = "SanitizedContent"

\* C1: a construction fails with TypeError, makes no object and returns none
\* when the approval is absent or no approval object, its justification is
\* missing or shorter than 20 characters, or the class is the abstract base,
\* whatever the content and the directionality; any other construction
\* succeeds and makes the object of the class's kind.
C1_ConstructionGate ==
    [][ event'.op = "construct" =>
          IF MustFail(event')
          THEN /\ event'.raised = "TypeError"
               /\ made' = made
               /\ result'.cls = "NoneType"
          ELSE /\ event'.raised = ""
               /\ result'.cls = event'.cls
               /\ result'.content = event'.content
               /\ result'.content_kind \in 1..8
               /\ made' = made \cup {result'} ]_vars

\* a concrete class, a real approval whose justification has 19 characters:
\* the construction raised
C1_Witness ==
    /\ event.op = "construct"
    /\ event.cls = "SanitizedHtml"
    /\ event.approval.type = "approval"
    /\ Len(event.approval.justification) = 19
    /\ event.raised = "TypeError"
    /\ made = {}

----------------------------------------------------------------------------
(* C2 *)

\* C2: with a non-empty whitelist the tags of the filter's output are well
\* nested: every closing tag closes the non-void element opened last, and no
\* element is open at the end of the output.
C2_WellNested ==
    (StripDone /\ tag_whitelist /= {}) => WellNestedFrom(result, 1, <<>>)

----------------------------------------------------------------------------
(* C3 *)

\* C3: every '<' of the filter's output starts a tag <name> or </name> whose
\* name is in the whitelist; without a whitelist the output has no '<'.
C3_OnlyWhitelistedTags ==
    StripDone =>
        \A p \in LtPositions(result) :
            /\ OutputTagAt(result, p).ok
            /\ OutputTagAt(result, p).name \in tag_whitelist

\* '<<b>script>' filtered without a whitelist: the tag inside is deleted and
\* the '<' left over is escaped
C3_Witness ==
    /\ StripDone
    /\ value = ExampleRecombine
    /\ tag_whitelist = {}
    /\ result = <<"&","l","t",";","s","c","r","i","p","t",">">>

----------------------------------------------------------------------------
(* C4 *)

\* the indices of the entries of the open-tag stack equal to tag
OpenMatches(tag) == {k \in 1..Len(open_tags) : open_tags[k] = tag}

\* C4: in _balance_tags a closing token that matches no entry of the stack
\* becomes empty text and leaves the stack as it is; one that matches pops
\* the entries from the top down to the nearest match and becomes their
\* closing tags, most recently opened first; and every entry of the stack
\* closes an opening token met earlier in the sequence.
C4_ClosingToken ==
    /\ [][ (pc = "balance" /\ i <= Len(tags) /\ tags[i][2] = "/") =>
             IF OpenMatches(tags[i]) = {}
             THEN /\ tags'[i] = <<>>
                  /\ open_tags' = open_tags
             ELSE LET k == CHOOSE k \in OpenMatches(tags[i]) :
                                \A j \in OpenMatches(tags[i]) : j <= k
                  IN  /\ open_tags' = SubSeq(open_tags, 1, k - 1)
                      /\ tags'[i] =
                           Join([n \in 1..(Len(open_tags) - k + 1) |->
                                     open_tags[Len(open_tags) + 1 - n]]) ]_vars
    /\ [](pc = "balance" =>
             \A k \in 1..Len(open_tags) :
                 \E j \in 1..(i - 1) : tags[j] = <<"<">> \o SubSeq(open_tags[k], 3, Len(open_tags[k])))

\* a closing token that closed two open elements at once
C4_Witness ==
    /\ pc = "balance"
    /\ event.op = "close"
    /\ Len(event.open_before) = Len(open_tags) + 2

----------------------------------------------------------------------------
(* C5 *)

\* C5: the filter applied to its own output, with the same whitelist, returns
\* that output.
C5_Idempotent ==
    StripDone => strip_html_tags(result, tag_whitelist) = result

\* an output that the filter changed and to which it added closing tags
C5_Witness ==
    /\ StripDone
    /\ final_close_tags /= <<>>
    /\ \E k \in 1..Len(tags) : tags[k] = <<>>
    /\ result /= value

----------------------------------------------------------------------------
(* C6 *)

----------------------------------------------------------------------------
(* C7 *)

\* C7 as stated: the filter with whitelist {b} turns '<b>ok<i>bad</i></b>'
\* into '<b>ok</b>'.
C7_Original ==
    (StripDone /\ value = ExampleNested /\ tag_whitelist = {B}) =>
        result = <<"<","b",">","o","k","<","/","b",">">>

\* C7, amended: the filter with whitelist {b} turns '<b>ok<i>bad</i></b>' into
\* '<b>okbad</b>': the tags <i> and </i> are deleted, the text between them
\* stays.
C7_TagsDeletedTextKept ==
    (StripDone /\ value = ExampleNested /\ tag_whitelist = {B}) =>
        result = <<"<","b",">","o","k","b","a","d","<","/","b",">">>

\* the call of the example has returned
C7_Witness ==
    /\ StripDone
    /\ value = ExampleNested
    /\ tag_whitelist = {B}
    /\ Len(tags) = 2

----------------------------------------------------------------------------
(* C8 *)

RawTextNames ==
    { <<"s","c","r","i","p","t">>,
      <<"s","t","y","l","e">>,
      <<"t","e","x","t","a","r","e","a">>,
      <<"t","i","t","l","e">> }

\* C8: in html_to_text an opening script, style, textarea or title tag met
\* outside a raw-text region opens one; while a region is open no text and
\* no tag changes the output, and the region is closed by the closing tag of
\* the same name, compared case-insensitively, and by nothing else.  The
\* example <script>alert('<p>x</p>')</script>Done gives 'Done', and a raw-text
\* element that is never closed discards the rest of the input.
C8_RawTextRegion ==
    /\ [][ pc = "loop" =>
             LET tag == lower(NextMatch.tag)
             IN  /\ (removing_until = <<>> /\ tag \in RawTextNames) =>
                        removing_until' = <<"/">> \o tag
                 /\ (removing_until = <<>> /\ tag \notin RawTextNames) =>
                        removing_until' = <<>>
                 /\ removing_until /= <<>> =>
                        /\ text' = text
                        /\ removing_until' =
                               IF tag = removing_until THEN <<>> ELSE removing_until ]_vars
    /\ []((pc = "done" /\ html = ExampleScript) => result = <<"D","o","n","e">>)
    /\ []((pc = "done" /\ html = ExampleUnterminated) => result = <<"a">>)

\* inside <script> the tag <p> was met and skipped, the output still empty
C8_Witness ==
    /\ pc = "loop"
    /\ html = ExampleScript
    /\ event.op = "skip"
    /\ event.tag = <<"p">>
    /\ removing_until = <<"/","s","c","r","i","p","t">>
    /\ text = <<>>

----------------------------------------------------------------------------
(* C9 *)

\* C9: no void element is on the open-tag stack of _balance_tags or in the
\* auto-close suffix it returns, and no frame of html_to_text's whitespace
\* stack belongs to a void element.
C9_VoidNeverOpen ==
    /\ \A k \in 1..Len(open_tags) :
           SubSeq(open_tags[k], 3, Len(open_tags[k]) - 1) \notin VoidNames
    /\ \A v \in VoidNames : FindSub(final_close_tags, <<"<", "/">> \o v \o <<">">>, 1) = 0
    /\ \A k \in 1..Len(preserve_whitespace_stack) :
           preserve_whitespace_stack[k][1] \notin VoidNames

\* _balance_tags met <br> with an element open and left the stack as it was
C9_Witness ==
    /\ pc = "balance"
    /\ event.op = "void"
    /\ event.tag = <<"<","b","r",">">>
    /\ open_tags /= <<>>
    /\ open_tags = event.open_before

----------------------------------------------------------------------------
(* C10 *)

\* the value the style attribute of each attribute text of the explored inputs
\* gives white-space ("none": no white-space declaration)
StyleTable ==
    { [attrs |-> <<>>,
       ws |-> "none"],
      [attrs |-> <<" ","s","t","y","l","e","=","'","w","h","i","t","e","-","s","p","a","c",
                   "e",":","p","r","e","'">>,
       ws |-> "pre"],
      [attrs |-> <<" ","s","t","y","l","e","=","\"","w","h","i","t","e","-","s","p","a",
                   "c","e",":","n","o","r","m","a","l","\"">>,
       ws |-> "normal"],
      [attrs |-> <<" ","s","t","y","l","e","=","'","w","h","i","t","e","-","s","p","a","c",
                   "e",":","n","o","r","m","a","l","'">>,
       ws |-> "normal"],
      [attrs |-> <<" ","s","t","y","l","e","=","'","w","h","i","t","e","-","s","p","a","c",
                   "e",":","n","o","w","r","a","p","'">>,
       ws |-> "nowrap"],
      [attrs |-> <<" ","s","t","y","l","e","=","\"","w","h","i","t","e","-","s","p","a",
                   "c","e",":","n","o","w","r","a","p","\"">>,
       ws |-> "nowrap"],
      [attrs |-> <<" ","s","t","y","l","e","=","\"","w","h","i","t","e","-","s","p","a",
                   "c","e",":","p","r","e","-","w","r","a","p","\"">>,
       ws |-> "pre-wrap"],
      [attrs |-> <<" ","s","t","y","l","e","=","'","w","h","i","t","e","-","s","p","a","c",
                   "e",":","p","r","e","-","l","i","n","e","'">>,
       ws |-> "pre-line"],
      [attrs |-> <<" ","s","t","y","l","e","=","'","c","o","l","o","r",":","r","e","d",";",
                   " ","W","H","I","T","E","-","S","P","A","C","E"," ",":"," ","B","r","e",
                   "a","k","-","S","p","a","c","e","s","'">>,
       ws |-> "break-spaces"] }

DeclaredWhiteSpace(attrs) == (CHOOSE e \in StyleTable : e.attrs = attrs).ws

\* every run of space, tab, CR and LF of s made one space
CollapsedRuns(s) ==
    Join([k \in 1..Len(s) |->
              IF s[k] \notin {" ", "\t", "\r", "\n"} THEN <<s[k]>>
              ELSE IF k > 1 /\ s[k - 1] \in {" ", "\t", "\r", "\n"} THEN <<>>
              ELSE <<" ">>])

\* the setting of the frame on top of stack; collapsing when stack is empty
TopPreserves(stack) == stack /= <<>> /\ stack[Len(stack)][2]

\* the setting of the frame an opening tag pushes on stack
ExpectedPreserve(tag, attrs, stack) ==
    IF tag = <<"p","r","e">> THEN TRUE
    ELSE IF DeclaredWhiteSpace(attrs) \in {"pre", "pre-wrap", "break-spaces"} THEN TRUE
    ELSE IF DeclaredWhiteSpace(attrs) \in {"normal", "nowrap"} THEN FALSE
    ELSE TopPreserves(stack)

----------------------------------------------------------------------------
(* C11 *)

\* the buffer t ends in a space, tab, CR or LF
EndsInWhitespace(t) == t /= <<>> /\ t[Len(t)] \in {" ", "\t", "\r", "\n"}

\* the step appends gap to the buffer, and after it at most the newline or
\* tab of the tag
GapAppended(gap) ==
    \E own \in {<<>>, <<"\n">>, <<"\t">>} : text' = text \o gap \o own

\* the collapsed gap of the iteration at hand
CollapsedGap == CollapsedRuns(unescape(SubSeq(html, start, NextMatch.offset - 1), 1))

\* an iteration outside a raw-text region whose top frame does not preserve
CollapsingIteration ==
    /\ pc = "loop"
    /\ removing_until = <<>>
    /\ ~TopPreserves(preserve_whitespace_stack)

\* C11 as stated: a collapsed gap loses its leading space when the buffer does
\* not end in whitespace, and keeps it otherwise.
C11_Original ==
    [][ CollapsingIteration =>
          GapAppended(IF CollapsedGap /= <<>> /\ Head(CollapsedGap) = " "
                         /\ ~EndsInWhitespace(text)
                      THEN Tail(CollapsedGap) ELSE CollapsedGap) ]_vars

\* C11, amended: a collapsed gap loses its leading space when the buffer is
\* empty or ends in a space, tab, CR or LF, and keeps it when the buffer ends
\* in any other character.
C11_LeadingSpace ==
    [][ CollapsingIteration =>
          GapAppended(IF CollapsedGap /= <<>> /\ Head(CollapsedGap) = " "
                         /\ (text = <<>> \/ EndsInWhitespace(text))
                      THEN Tail(CollapsedGap) ELSE CollapsedGap) ]_vars

\* 'a<i> ': the gap ' ' after <i> met the buffer 'a' and kept its space
C11_Witness ==
    /\ event.op = "no_tag"
    /\ event.text_before = <<"a">>
    /\ event.chunk = <<" ">>
    /\ event.stack_before = << <<<<"i">>, FALSE>> >>
    /\ text = <<"a", " ">>

----------------------------------------------------------------------------
(* C12 *)

\* the indices of the frames of the whitespace stack whose tag is name
FramesNamed(name) ==
    {k \in 1..Len(preserve_whitespace_stack) : preserve_whitespace_stack[k][1] = name}

\* the loop handles a closing tag, outside a raw-text region or as the tag
\* that ends the region, and a frame of its name is on the stack
ClosesOpenElement ==
    /\ pc = "loop"
    /\ lower(NextMatch.tag) /= <<>>
    /\ Head(lower(NextMatch.tag)) = "/"
    /\ removing_until \in {<<>>, lower(NextMatch.tag)}
    /\ FramesNamed(Tail(lower(NextMatch.tag))) /= {}

\* C12: a closing tag pops the nearest frame of its name and every frame above
\* it and leaves the frames below as they are, for every element that pushes
\* a frame, script, style, textarea and title included.
C12_ClosingTagPops ==
    [][ ClosesOpenElement =>
          LET F == FramesNamed(Tail(lower(NextMatch.tag)))
              k == CHOOSE k \in F : \A j \in F : j <= k
          IN  preserve_whitespace_stack' = SubSeq(preserve_whitespace_stack, 1, k - 1)
      ]_vars

----------------------------------------------------------------------------
(* C13 *)

\* the name of a lower-cased tag, without the '/' of a closing tag
NameOf(tag) == IF tag /= <<>> /\ Head(tag) = "/" THEN Tail(tag) ELSE tag

\* the loop handles, outside a raw-text region, a closing tag whose name is
\* on no frame of the stack, or a tag of a void element, opening or closing
StrayOrVoidTag ==
    /\ pc = "loop"
    /\ removing_until = <<>>
    /\ lower(NextMatch.tag) /= <<>>
    /\ \/ /\ Head(lower(NextMatch.tag)) = "/"
          /\ FramesNamed(NameOf(lower(NextMatch.tag))) = {}
       \/ NameOf(lower(NextMatch.tag)) \in VoidNames

\* C13: a closing tag whose name matches no frame of the whitespace stack, and
\* a tag of a void element in opening or closing form, leave the stack as it
\* is; a stray closing tag inside <pre> does not end the preservation.
C13_StrayCloserKeepsStack ==
    [][ StrayOrVoidTag => preserve_whitespace_stack' = preserve_whitespace_stack ]_vars

----------------------------------------------------------------------------
(* C14 *)

\* html has no opening pre tag, no white-space style and no non-breaking
\* space, written as a character or as &nbsp;
PlainHtml ==
    /\ html /= <<>>
    /\ FindSub(lower(html), <<"<","p","r","e">>, 1) = 0
    /\ FindSub(lower(html), <<"w","h","i","t","e","-","s","p","a","c","e">>, 1) = 0
    /\ FindSub(lower(html), <<"&","n","b","s","p">>, 1) = 0
    /\ \A k \in 1..Len(html) : html[k] /= NBSP

\* t has no two spaces in a row, no space at its start and no space directly
\* after a newline or a tab
NoStraySpace(t) ==
    /\ \A k \in 1..(Len(t) - 1) : t[k] \in {" ", "\n", "\t"} => t[k + 1] /= " "
    /\ t /= <<>> => Head(t) /= " "

\* the block-level names
BlockLevelNames ==
    { <<"a","d","d","r","e","s","s">>,
      <<"b","l","o","c","k","q","u","o","t","e">>,
      <<"d","d">>,
      <<"d","i","v">>,
      <<"d","l">>,
      <<"d","t">>,
      <<"h","1">>,
      <<"h","2">>,
      <<"h","3">>,
      <<"h","4">>,
      <<"h","5">>,
      <<"h","6">>,
      <<"h","r">>,
      <<"l","i">>,
      <<"o","l">>,
      <<"p">>,
      <<"p","r","e">>,
      <<"t","a","b","l","e">>,
      <<"t","r">>,
      <<"u","l">> }

\* the buffer once the collapsed gap of the iteration at hand is appended
BufferWithGap ==
    text \o (IF CollapsedGap /= <<>> /\ Head(CollapsedGap) = " "
                /\ (text = <<>> \/ EndsInWhitespace(text))
             THEN Tail(CollapsedGap) ELSE CollapsedGap)

\* C14: for html without a pre tag, a white-space style or a non-breaking
\* space, the buffer and the result never have two spaces in a row, a space at
\* the start, or a space directly after a newline or tab; and a block-level
\* tag, opening or closing, appends a newline exactly when the buffer, the gap
\* before the tag included, is not empty and does not end in a newline.
C14_NoStraySpace ==
    /\ [](PlainHtml => (NoStraySpace(text) /\ (pc = "done" => NoStraySpace(result))))
    /\ [][ (PlainHtml /\ pc = "loop" /\ removing_until = <<>>
              /\ NameOf(lower(NextMatch.tag)) \in BlockLevelNames) =>
             text' = IF BufferWithGap /= <<>> /\ BufferWithGap[Len(BufferWithGap)] /= "\n"
                     THEN Append(BufferWithGap, "\n")
                     ELSE BufferWithGap ]_vars

\* 'a<p> ': <p> appended a newline after 'a', and the gap ' ' that follows
\* left no space after it
C14_Witness ==
    /\ PlainHtml
    /\ pc = "return"
    /\ event.text_before = <<"a", "\n">>
    /\ event.chunk = <<" ">>
    /\ text = <<"a", "\n">>

====
